---------------------------- MODULE Spec2Model ----------------------------
(***************************************************************************)
(* Model of the Quantum ESPRESSO post-processing scripts of docs/examples: *)
(* qe_band_analysis.py, qe_phonon_analysis.py, qe_soc_analysis.py,         *)
(* qe_pdos_analysis.py and qe_pdos_simple.py.                              *)
(*                                                                         *)
(* Numbers.  The scripts compute with floats; the model computes with      *)
(* integers and exact fractions.  Energies are counted in tenths of an eV  *)
(* (-0.5 eV is -5).  A trapezoidal integral is carried as its double       *)
(* (trapz2 = 2 * np.trapz), which is an integer for integer samples, and a *)
(* float quotient a / b is carried as the fraction [num, den] or, for      *)
(* b = 0, as the value numpy produces (nan, inf, -inf).                    *)
(*                                                                         *)
(* Files.  A file of the working directory is [exists, numeric, rows]:     *)
(* rows is the whitespace-delimited table, one sequence per line.          *)
(***************************************************************************)
EXTENDS Integers, Sequences, FiniteSets, TLC

VARIABLES
    script,   \* which script (or, in the function specifications, which function) runs
    fs,       \* the input files of the working directory: name -> file
    pc,       \* position in the script
    env,      \* the script's local variables: name -> value
    out,      \* what the run has printed and written so far, in order
    fault,    \* the uncaught exception that ended the run, or "none"
    parent    \* the frames of the script waiting in subprocess.run for this one

vars == <<script, fs, pc, env, out, fault, parent>>

---------------------------------------------------------------------------
(* Bounds of the model *)

MaxRows == 3
MaxBands == 22

(* Program constants *)

SplitIndex == 20

---------------------------------------------------------------------------
(* Python / numpy values *)

None == [isNone |-> TRUE, v |-> <<>>]

Arr(a) == [isNone |-> FALSE, v |-> a]

Ret(e, x, l) == [exc |-> e, val |-> x, log |-> l]

Range(s) == {s[i] : i \in 1..Len(s)}

SumSeq(s) ==
    LET F[i \in 0..Len(s)] == IF i = 0 THEN 0 ELSE F[i - 1] + s[i]
    IN  F[Len(s)]

Abs(a) == IF a < 0 THEN -a ELSE a

\* s[:k] for k >= 0
SliceTo(s, k) == SubSeq(s, 1, IF k < Len(s) THEN k ELSE Len(s))

\* s[k:] for k >= 0
SliceFrom(s, k) == SubSeq(s, k + 1, Len(s))

\* m[:, j] of a 2-D array held as a sequence of rows (j counted from 0)
Column(m, j) == [i \in 1..Len(m) |-> m[i][j + 1]]

\* m[:, :k] and m[:, k:]
ColumnsTo(m, k) == [i \in 1..Len(m) |-> SliceTo(m[i], k)]

ColumnsFrom(m, k) == [i \in 1..Len(m) |-> SliceFrom(m[i], k)]

\* the entries of a 2-D array (rows of one length) in row-major order
Flatten(m) ==
    IF m = <<>> THEN <<>>
    ELSE LET c == Len(m[1]) IN
         [k \in 1..(Len(m) * c) |-> m[((k - 1) \div c) + 1][((k - 1) % c) + 1]]

\* np.max / np.min of a non-empty flat array
MaxOf(s) == CHOOSE x \in Range(s) : \A y \in Range(s) : y <= x

MinOf(s) == CHOOSE x \in Range(s) : \A y \in Range(s) : x <= y

\* np.max(a), np.min(a): an empty array has no identity for the reduction
np_max(m) ==
    IF Flatten(m) = <<>> THEN Ret("ValueError", 0, <<>>)
    ELSE Ret("none", MaxOf(Flatten(m)), <<>>)

np_min(m) ==
    IF Flatten(m) = <<>> THEN Ret("ValueError", 0, <<>>)
    ELSE Ret("none", MinOf(Flatten(m)), <<>>)

---------------------------------------------------------------------------
(* Files and np.loadtxt *)

Absent == [exists |-> FALSE, numeric |-> TRUE, rows |-> <<>>]

TextFile(t) == [exists |-> TRUE, numeric |-> TRUE, rows |-> t]

\* a file one of whose tokens is not a number
Garbled(t) == [exists |-> TRUE, numeric |-> FALSE, rows |-> t]

IsRagged(t) == \E i \in 1..Len(t) : Len(t[i]) # Len(t[1])

\* np.loadtxt(fname): the array and its number of dimensions.  A missing file
\* raises FileNotFoundError, a non-numeric token or a line with another number
\* of columns raises ValueError; a table of one line or of one column is
\* squeezed to one dimension (a single number to none), an empty file gives
\* an empty 1-D array.
loadtxt(f) ==
    IF ~f.exists THEN [exc |-> "FileNotFoundError", ndim |-> 0, data |-> <<>>]
    ELSE IF ~f.numeric \/ IsRagged(f.rows)
        THEN [exc |-> "ValueError", ndim |-> 0, data |-> <<>>]
    ELSE IF f.rows = <<>> THEN [exc |-> "none", ndim |-> 1, data |-> <<>>]
    ELSE [exc |-> "none",
          ndim |-> (IF Len(f.rows) > 1 THEN 1 ELSE 0)
                   + (IF Len(f.rows[1]) > 1 THEN 1 ELSE 0),
          data |-> f.rows]

\* the body of a loader's try block: data = np.loadtxt(fname), data[:, 0] and
\* data[:, 1:] (wide) or data[:, 1] (not wide).  Indexing an array of fewer
\* than two dimensions with [:, 0] raises IndexError.
LoadColumns(f, wide) ==
    LET d == loadtxt(f) IN
    IF d.exc # "none" THEN Ret(d.exc, <<None, None>>, <<>>)
    ELSE IF d.ndim < 2 THEN Ret("IndexError", <<None, None>>, <<>>)
    ELSE Ret("none",
             <<Arr(Column(d.data, 0)),
               IF wide THEN Arr(ColumnsFrom(d.data, 1)) ELSE Arr(Column(d.data, 1))>>,
             <<>>)

---------------------------------------------------------------------------
(* Float division and element-wise arithmetic *)

\* a / b on numpy floats: a zero divisor gives nan or an infinity (with a
\* RuntimeWarning), never an exception
fdiv(a, b) ==
    IF b = 0
    THEN [kind |-> IF a = 0 THEN "nan" ELSE IF a > 0 THEN "inf" ELSE "-inf",
          num |-> 0, den |-> 0]
    ELSE [kind |-> "num", num |-> a, den |-> b]

\* a * b on 1-D arrays: equal lengths, or one of them of length 1
np_mul(a, b) ==
    IF Len(a) = Len(b) THEN Ret("none", [i \in 1..Len(a) |-> a[i] * b[i]], <<>>)
    ELSE IF Len(a) = 1 THEN Ret("none", [i \in 1..Len(b) |-> a[1] * b[i]], <<>>)
    ELSE IF Len(b) = 1 THEN Ret("none", [i \in 1..Len(a) |-> a[i] * b[1]], <<>>)
    ELSE Ret("ValueError", <<>>, <<>>)

\* np.diff(x)
diff(x) == [i \in 1..(IF Len(x) = 0 THEN 0 ELSE Len(x) - 1) |-> x[i + 1] - x[i]]

\* twice np.trapz(y, x): d = diff(x); (d * (y[1:] + y[:-1]) / 2.0).sum()
trapz2(y, x) ==
    LET d == diff(x)
        ya == SliceFrom(y, 1)
        yb == SliceTo(y, IF Len(y) = 0 THEN 0 ELSE Len(y) - 1)
        s == [i \in 1..Len(ya) |-> ya[i] + yb[i]]
        p == np_mul(d, s)
    IN  IF p.exc # "none" THEN p ELSE Ret("none", SumSeq(p.val), <<>>)

---------------------------------------------------------------------------
(* qe_band_analysis.py *)

\* the loader without its try block
read_band_structure_unguarded(fname, f) == LoadColumns(f, TRUE)

read_band_structure(fname, f) ==
    LET r == LoadColumns(f, TRUE) IN
    IF r.exc = "none" THEN r
    ELSE Ret("none", <<None, None>>,
             << <<"print", "Error reading band structure file", fname>> >>)

plot_band_structure(k_points, energies) ==
    Ret("none", 0, << <<"savefig", "band_structure.png", "">> >>)

\* the split taken one column early
analyze_band_gap_split_off_by_one(energies) ==
    LET vb_max == np_max(ColumnsTo(energies, SplitIndex - 1))
        cb_min == np_min(ColumnsFrom(energies, SplitIndex - 1))
    IN  IF vb_max.exc # "none" THEN vb_max
        ELSE IF cb_min.exc # "none" THEN cb_min
        ELSE Ret("none", cb_min.val - vb_max.val,
                 << <<"print", "Band structure analysis", "">> >>)

\* an empty conduction block reduced to 0 instead of raising
analyze_band_gap_empty_as_zero(energies) ==
    LET vb_max == np_max(ColumnsTo(energies, SplitIndex))
        cb == ColumnsFrom(energies, SplitIndex)
        cb_min == IF Flatten(cb) = <<>> THEN Ret("none", 0, <<>>) ELSE np_min(cb)
    IN  IF vb_max.exc # "none" THEN vb_max
        ELSE Ret("none", cb_min.val - vb_max.val,
                 << <<"print", "Band structure analysis", "">> >>)

analyze_band_gap_from_bands(energies) ==
    LET vb_max == np_max(ColumnsTo(energies, SplitIndex))
        cb_min == np_min(ColumnsFrom(energies, SplitIndex))
    IN  IF vb_max.exc # "none" THEN vb_max
        ELSE IF cb_min.exc # "none" THEN cb_min
        ELSE Ret("none", cb_min.val - vb_max.val,
                 << <<"print", "Band structure analysis", "">> >>)

---------------------------------------------------------------------------
(* Running a script: one action per statement of its main *)

\* the statement's call returned r: go on at `next` with the locals `e`, or
\* end the run with the exception the call raised
Proceed(r, e, next) ==
    /\ out' = out \o r.log
    /\ IF r.exc = "none"
       THEN pc' = next /\ env' = e /\ fault' = "none"
       ELSE pc' = "crashed" /\ env' = env /\ fault' = r.exc
    /\ UNCHANGED <<script, fs, parent>>

Say(text, next) ==
    Proceed(Ret("none", 0, << <<"print", text, "">> >>), env, next)

band_main_begin ==
    /\ script = "band" /\ pc = "begin"
    /\ Say("=== Band Structure Analysis ===", "read")

band_main_read ==
    /\ script = "band" /\ pc = "read"
    /\ LET r == read_band_structure("bands.dat", fs["bands.dat"]) IN
       Proceed(r, [env EXCEPT !.k_points = r.val[1], !.energies = r.val[2]],
               IF r.val[1].isNone THEN "finish" ELSE "plot")

band_main_plot ==
    /\ script = "band" /\ pc = "plot"
    /\ Proceed(plot_band_structure(env.k_points.v, env.energies.v), env, "gap")

band_main_gap ==
    /\ script = "band" /\ pc = "gap"
    /\ LET r == analyze_band_gap_from_bands(env.energies.v) IN
       Proceed(r, [env EXCEPT !.band_gap = Arr(r.val)], "finish")

band_main_finish ==
    /\ script = "band" /\ pc = "finish"
    /\ Say("Band structure analysis completed!", "end")

band_main ==
    \/ band_main_begin
    \/ band_main_read
    \/ band_main_plot
    \/ band_main_gap
    \/ band_main_finish

---------------------------------------------------------------------------
(* qe_phonon_analysis.py *)

read_phonon_dos(fname, f) ==
    LET r == LoadColumns(f, FALSE) IN
    IF r.exc = "none" THEN r
    ELSE Ret("none", <<None, None>>,
             << <<"print", "Error reading phonon DOS file", fname>> >>)

read_phonon_modes(fname, f) ==
    LET r == LoadColumns(f, TRUE) IN
    IF r.exc = "none" THEN r
    ELSE Ret("none", <<None, None>>,
             << <<"print", "Error reading phonon modes file", fname>> >>)

plot_phonon_dos(frequency, dos) ==
    Ret("none", 0, << <<"savefig", "phonon_dos.png", "">> >>)

plot_phonon_dispersion(q_points, frequencies) ==
    Ret("none", 0, << <<"savefig", "phonon_dispersion.png", "">> >>)

\* The value returned: max_freq, avg_freq (a quotient) and total2, twice
\* total_states.  The halves of the two integrals cancel in avg_freq.
PhononResult(mx, avg, t2) == [max_freq |-> mx, avg_freq |-> avg, total2 |-> t2]

\* np.trapz(dos) without the frequencies: unit spacing taken for granted
analyze_phonon_unit_spacing(frequency, dos) ==
    LET ones == [i \in 1..Len(frequency) |-> i]
        total == trapz2(dos, ones)
        mx == np_max(<<frequency>>)
        fd == np_mul(frequency, dos)
        w == trapz2(fd.val, ones)
    IN  Ret("none", PhononResult(mx.val, fdiv(w.val, total.val), total.val),
            << <<"print", "Phonon analysis", "">> >>)

\* both integrals as left Riemann sums
analyze_phonon_left_sums(frequency, dos) ==
    LET d == diff(frequency)
        total2 == SumSeq([i \in 1..Len(d) |-> 2 * d[i] * dos[i]])
        w2 == SumSeq([i \in 1..Len(d) |-> 2 * d[i] * frequency[i] * dos[i]])
        mx == np_max(<<frequency>>)
    IN  Ret("none", PhononResult(mx.val, fdiv(w2, total2), total2),
            << <<"print", "Phonon analysis", "">> >>)

analyze_phonon_properties(frequency, dos) ==
    LET total == trapz2(dos, frequency)
        mx == np_max(<<frequency>>)
        fd == np_mul(frequency, dos)
        w == trapz2(fd.val, frequency)
    IN  IF total.exc # "none" THEN total
        ELSE IF mx.exc # "none" THEN mx
        ELSE IF fd.exc # "none" THEN fd
        ELSE IF w.exc # "none" THEN w
        ELSE Ret("none", PhononResult(mx.val, fdiv(w.val, total.val), total.val),
                 << <<"print", "Phonon analysis", "">> >>)

phonon_main_begin ==
    /\ script = "phonon" /\ pc = "begin"
    /\ Say("=== Phonon Analysis ===", "read_dos")

\* a failed DOS load ending the run's work, dispersion included
phonon_main_read_dos_gives_up ==
    /\ script = "phonon" /\ pc = "read_dos"
    /\ LET r == read_phonon_dos("phonon_dos.dat", fs["phonon_dos.dat"]) IN
       Proceed(r, [env EXCEPT !.frequency = r.val[1], !.dos = r.val[2]],
               IF r.val[1].isNone THEN "finish" ELSE "plot_dos")

phonon_main_read_dos ==
    /\ script = "phonon" /\ pc = "read_dos"
    /\ LET r == read_phonon_dos("phonon_dos.dat", fs["phonon_dos.dat"]) IN
       Proceed(r, [env EXCEPT !.frequency = r.val[1], !.dos = r.val[2]],
               IF r.val[1].isNone THEN "read_modes" ELSE "plot_dos")

phonon_main_plot_dos ==
    /\ script = "phonon" /\ pc = "plot_dos"
    /\ Proceed(plot_phonon_dos(env.frequency.v, env.dos.v), env, "analyze")

phonon_main_analyze ==
    /\ script = "phonon" /\ pc = "analyze"
    /\ LET r == analyze_phonon_properties(env.frequency.v, env.dos.v) IN
       Proceed(r, [env EXCEPT !.result = Arr(r.val)], "read_modes")

phonon_main_read_modes ==
    /\ script = "phonon" /\ pc = "read_modes"
    /\ LET r == read_phonon_modes("phonon_frequencies.dat",
                                  fs["phonon_frequencies.dat"]) IN
       Proceed(r, [env EXCEPT !.q_points = r.val[1], !.frequencies = r.val[2]],
               IF r.val[1].isNone THEN "finish" ELSE "plot_dispersion")

phonon_main_plot_dispersion ==
    /\ script = "phonon" /\ pc = "plot_dispersion"
    /\ Proceed(plot_phonon_dispersion(env.q_points.v, env.frequencies.v), env,
               "finish")

phonon_main_finish ==
    /\ script = "phonon" /\ pc = "finish"
    /\ Say("Phonon analysis completed!", "end")

phonon_main ==
    \/ phonon_main_begin
    \/ phonon_main_read_dos
    \/ phonon_main_plot_dos
    \/ phonon_main_analyze
    \/ phonon_main_read_modes
    \/ phonon_main_plot_dispersion
    \/ phonon_main_finish

---------------------------------------------------------------------------
(* qe_soc_analysis.py *)

read_soc_energies(fname, f) ==
    LET r == LoadColumns(f, TRUE) IN
    IF r.exc = "none" THEN r
    ELSE Ret("none", <<None, None>>,
             << <<"print", "Error reading SOC energies file", fname>> >>)

NRows(m) == Len(m)

NCols(m) == IF Len(m) = 0 THEN 0 ELSE Len(m[1])

\* whether two lengths of one axis broadcast, and to what length
Broadcasts(n, k) == n = k \/ n = 1 \/ k = 1

BroadLen(n, k) == IF n = 1 THEN k ELSE n

\* a - b on 2-D arrays, with numpy's broadcasting of axes of length 1
np_sub(a, b) ==
    IF ~(Broadcasts(NRows(a), NRows(b)) /\ Broadcasts(NCols(a), NCols(b)))
    THEN Ret("ValueError", <<>>, <<>>)
    ELSE Ret("none",
             [i \in 1..BroadLen(NRows(a), NRows(b)) |->
               [j \in 1..BroadLen(NCols(a), NCols(b)) |->
                 a[IF NRows(a) = 1 THEN 1 ELSE i][IF NCols(a) = 1 THEN 1 ELSE j]
                 - b[IF NRows(b) = 1 THEN 1 ELSE i][IF NCols(b) = 1 THEN 1 ELSE j]]],
             <<>>)

np_abs(m) == [i \in 1..Len(m) |-> [j \in 1..Len(m[i]) |-> Abs(m[i][j])]]

\* the mean and the maximum of the differences, their signs kept
compare_signed_differences(soc_energies, no_soc_energies) ==
    IF soc_energies.isNone \/ no_soc_energies.isNone THEN Ret("none", None, <<>>)
    ELSE
        LET energy_diff == np_sub(soc_energies.v, no_soc_energies.v)
            a == Flatten(energy_diff.val)
            mx == np_max(<<a>>)
        IN  IF energy_diff.exc # "none" THEN energy_diff
            ELSE IF mx.exc # "none" THEN mx
            ELSE Ret("none",
                     Arr([avg_splitting |-> fdiv(SumSeq(a), Len(a)),
                          max_splitting |-> mx.val]),
                     << <<"print", "SOC analysis", "">> >>)

\* The value returned: avg_splitting (the quotient sum / size) and max_splitting
compare_with_without_soc(soc_energies, no_soc_energies) ==
    IF soc_energies.isNone \/ no_soc_energies.isNone THEN Ret("none", None, <<>>)
    ELSE
        LET energy_diff == np_sub(soc_energies.v, no_soc_energies.v)
            a == Flatten(np_abs(energy_diff.val))
            mx == np_max(<<a>>)
        IN  IF energy_diff.exc # "none" THEN energy_diff
            ELSE IF mx.exc # "none" THEN mx
            ELSE Ret("none",
                     Arr([avg_splitting |-> fdiv(SumSeq(a), Len(a)),
                          max_splitting |-> mx.val]),
                     << <<"print", "SOC analysis", "">> >>)

\* plt.plot(k_points, column) needs as many k-points as the table has rows
plot_soc_comparison(k_points, soc_energies, no_soc_energies) ==
    IF Len(k_points) # NRows(no_soc_energies) \/ Len(k_points) # NRows(soc_energies)
    THEN Ret("ValueError", 0, <<>>)
    ELSE Ret("none", 0, << <<"savefig", "soc_comparison.png", "">> >>)

analyze_soc_effects_begin ==
    /\ script = "soc" /\ pc = "begin"
    /\ Say("=== Spin-Orbit Coupling Analysis ===", "read_soc")

analyze_soc_effects_read_soc ==
    /\ script = "soc" /\ pc = "read_soc"
    /\ LET r == read_soc_energies("soc_bands.dat", fs["soc_bands.dat"]) IN
       Proceed(r, [env EXCEPT !.k_points = r.val[1], !.soc_energies = r.val[2]],
               IF r.val[1].isNone THEN "finish" ELSE "read_no_soc")

analyze_soc_effects_read_no_soc ==
    /\ script = "soc" /\ pc = "read_no_soc"
    /\ LET r == read_soc_energies("bands.dat", fs["bands.dat"]) IN
       Proceed(r, [env EXCEPT !.no_soc_energies = r.val[2]],
               IF r.val[2].isNone THEN "finish" ELSE "compare")

analyze_soc_effects_compare ==
    /\ script = "soc" /\ pc = "compare"
    /\ LET r == compare_with_without_soc(env.soc_energies, env.no_soc_energies) IN
       Proceed(r, [env EXCEPT !.splitting = r.val], "plot")

analyze_soc_effects_plot ==
    /\ script = "soc" /\ pc = "plot"
    /\ Proceed(plot_soc_comparison(env.k_points.v, env.soc_energies.v,
                                   env.no_soc_energies.v), env, "finish")

analyze_soc_effects_finish ==
    /\ script = "soc" /\ pc = "finish"
    /\ Say("SOC analysis completed!", "end")

analyze_soc_effects ==
    \/ analyze_soc_effects_begin
    \/ analyze_soc_effects_read_soc
    \/ analyze_soc_effects_read_no_soc
    \/ analyze_soc_effects_compare
    \/ analyze_soc_effects_plot
    \/ analyze_soc_effects_finish

---------------------------------------------------------------------------
(* qe_pdos_analysis.py *)

Atoms == <<"W", "Se", "S", "V">>

AtomSet == Range(Atoms)

atom_files ==
    [a \in AtomSet |->
        CASE a = "W" -> "atom_W_tot.dat"
          [] a = "Se" -> "atom_Se_tot.dat"
          [] a = "S" -> "atom_S_tot.dat"
          [] a = "V" -> "atom_V_tot.dat"]

\* the handler for FileNotFoundError alone
pdos_data_loader_missing_only(fname, f) ==
    LET r == LoadColumns(f, FALSE) IN
    IF r.exc = "FileNotFoundError"
    THEN Ret("none", <<None, None>>, << <<"print", "Warning: File not found", fname>> >>)
    ELSE r

pdos_data_loader(fname, f) ==
    LET r == LoadColumns(f, FALSE) IN
    IF r.exc = "none" THEN r
    ELSE IF r.exc = "FileNotFoundError"
        THEN Ret("none", <<None, None>>, << <<"print", "Warning: File not found", fname>> >>)
    ELSE Ret("none", <<None, None>>, << <<"print", "Error loading", fname>> >>)

\* np.argmin(a), np.argmax(a): the index (from 0) of the first occurrence of
\* the extremum; an empty array raises ValueError
argmin(a) ==
    IF a = <<>> THEN Ret("ValueError", 0, <<>>)
    ELSE LET F[i \in 1..Len(a)] ==
                 IF i = 1 THEN 1 ELSE IF a[i] < a[F[i - 1]] THEN i ELSE F[i - 1]
         IN  Ret("none", F[Len(a)] - 1, <<>>)

\* the last occurrence of the maximum instead of the first
argmax_last(a) ==
    IF a = <<>> THEN Ret("ValueError", 0, <<>>)
    ELSE LET F[i \in 1..Len(a)] ==
                 IF i = 1 THEN 1 ELSE IF a[i] >= a[F[i - 1]] THEN i ELSE F[i - 1]
         IN  Ret("none", F[Len(a)] - 1, <<>>)

argmax(a) ==
    IF a = <<>> THEN Ret("ValueError", 0, <<>>)
    ELSE LET F[i \in 1..Len(a)] ==
                 IF i = 1 THEN 1 ELSE IF a[i] > a[F[i - 1]] THEN i ELSE F[i - 1]
         IN  Ret("none", F[Len(a)] - 1, <<>>)

\* a[i] for i >= 0
Item(a, i) == IF i < Len(a) THEN Ret("none", a[i + 1], <<>>) ELSE Ret("IndexError", 0, <<>>)

\* the first of the results that raised, or else `last`
FirstRaise(rs, last) ==
    IF \E i \in 1..Len(rs) : rs[i].exc # "none"
    THEN rs[CHOOSE i \in 1..Len(rs) :
               rs[i].exc # "none" /\ \A j \in 1..(i - 1) : rs[j].exc = "none"]
    ELSE last

\* the valence slice taken up to and including the Fermi index, so that the
\* two integrals meet
atom_contributions_closed_gap(energy, pdos) ==
    LET fermi == argmin([i \in 1..Len(energy) |-> Abs(energy[i])])
        fermi_idx == fermi.val
        valence == trapz2(SliceTo(pdos, fermi_idx + 1), SliceTo(energy, fermi_idx + 1))
        conduction == trapz2(SliceFrom(pdos, fermi_idx), SliceFrom(energy, fermi_idx))
        valence_peak == argmax(SliceTo(pdos, fermi_idx))
        conduction_peak == argmax(SliceFrom(pdos, fermi_idx))
        valence_peak_energy == Item(energy, valence_peak.val)
        conduction_peak_energy == Item(energy, fermi_idx + conduction_peak.val)
        max_pdos == np_max(<<pdos>>)
    IN  IF fermi.exc # "none" THEN fermi
        ELSE FirstRaise(
            <<valence, conduction, valence_peak, conduction_peak,
              valence_peak_energy, conduction_peak_energy, max_pdos>>,
            Ret("none",
                [valence2 |-> valence.val,
                 conduction2 |-> conduction.val,
                 total2 |-> valence.val + conduction.val,
                 valence_peak_energy |-> valence_peak_energy.val,
                 conduction_peak_energy |-> conduction_peak_energy.val,
                 max_pdos |-> max_pdos.val],
                <<>>))

\* One turn of the loop of analyze_pdos_contributions, for a loaded atom.
\* The contributions are carried doubled (valence2 = 2 * valence_contribution).
atom_contributions(energy, pdos) ==
    LET fermi == argmin([i \in 1..Len(energy) |-> Abs(energy[i])])
        fermi_idx == fermi.val
        valence == trapz2(SliceTo(pdos, fermi_idx), SliceTo(energy, fermi_idx))
        conduction == trapz2(SliceFrom(pdos, fermi_idx), SliceFrom(energy, fermi_idx))
        valence_peak == argmax(SliceTo(pdos, fermi_idx))
        conduction_peak == argmax(SliceFrom(pdos, fermi_idx))
        valence_peak_energy == Item(energy, valence_peak.val)
        conduction_peak_energy == Item(energy, fermi_idx + conduction_peak.val)
        max_pdos == np_max(<<pdos>>)
    IN  IF fermi.exc # "none" THEN fermi
        ELSE FirstRaise(
            <<valence, conduction, valence_peak, conduction_peak,
              valence_peak_energy, conduction_peak_energy, max_pdos>>,
            Ret("none",
                [valence2 |-> valence.val,
                 conduction2 |-> conduction.val,
                 total2 |-> valence.val + conduction.val,
                 valence_peak_energy |-> valence_peak_energy.val,
                 conduction_peak_energy |-> conduction_peak_energy.val,
                 max_pdos |-> max_pdos.val],
                <<>>))

\* The dictionary returned has an entry for each loaded atom; the first turn of
\* the loop that raises ends the call.
analyze_pdos_contributions(energy, pdos_data) ==
    LET loaded == SelectSeq(Atoms, LAMBDA a : ~pdos_data[a].isNone)
        rs == [i \in 1..Len(loaded) |-> atom_contributions(energy, pdos_data[loaded[i]].v)]
    IN  FirstRaise(rs,
            Ret("none",
                [a \in Range(loaded) |->
                    rs[CHOOSE i \in 1..Len(loaded) : loaded[i] = a].val],
                <<>>))

\* plt.plot(energy_shifted, pdos) needs as many energies as PDOS values
create_pdos_plot(energy, pdos_data) ==
    IF \E a \in AtomSet : ~pdos_data[a].isNone /\ Len(pdos_data[a].v) # Len(energy)
    THEN Ret("ValueError", 0, <<>>)
    ELSE Ret("none", 0, <<>>)

\* the with block that writes the report: the title, its underline and the
\* system line are written; building the date line reads plt.datetime, which
\* matplotlib.pyplot does not have
write_report(analysis) ==
    Ret("AttributeError", 0,
        << <<"open", "pdos_analysis_report.txt", "w">>,
           <<"write", "PDOS Analysis Report", "">>,
           <<"write", "System: V-doped WSSe", "">> >>)

pdos_main_begin ==
    /\ script = "pdos" /\ pc = "begin"
    /\ Proceed(Ret("none", 0, << <<"print", "=== Enhanced PDOS Analysis ===", "">>,
                                 <<"print", "Loading PDOS data...", "">> >>),
               env, "load")

\* one turn of the loop over atom_files
pdos_main_load ==
    /\ script = "pdos" /\ pc = "load"
    /\ LET atom == Atoms[env.i]
           r == pdos_data_loader(atom_files[atom], fs[atom_files[atom]])
       IN  Proceed([r EXCEPT !.log = << <<"print", "Loading", atom>> >> \o r.log],
                   [env EXCEPT !.energy = IF r.val[1].isNone THEN @ ELSE r.val[1],
                               !.pdos_data[atom] = r.val[2],
                               !.i = @ + 1],
                   IF env.i = Len(Atoms) THEN "check" ELSE "load")

pdos_main_check ==
    /\ script = "pdos" /\ pc = "check"
    /\ IF env.energy.isNone
       THEN Say("Error: No valid PDOS data found!", "end")
       ELSE Say("Creating PDOS plot...", "plot")

pdos_main_plot ==
    /\ script = "pdos" /\ pc = "plot"
    /\ Proceed(create_pdos_plot(env.energy.v, env.pdos_data), env, "save")

pdos_main_save ==
    /\ script = "pdos" /\ pc = "save"
    /\ Proceed(Ret("none", 0, << <<"savefig", "V_doped_WSSe_PDOS.png", "">>,
                                 <<"print", "Plot saved as", "V_doped_WSSe_PDOS.png">> >>),
               env, "analyze")

pdos_main_analyze ==
    /\ script = "pdos" /\ pc = "analyze"
    /\ LET r == analyze_pdos_contributions(env.energy.v, env.pdos_data) IN
       Proceed([r EXCEPT !.log = << <<"print", "Analyzing PDOS contributions...", "">> >>],
               [env EXCEPT !.analysis = Arr(r.val)], "print_results")

pdos_main_print_results ==
    /\ script = "pdos" /\ pc = "print_results"
    /\ Say("=== PDOS Analysis Results ===", "report")

pdos_main_report ==
    /\ script = "pdos" /\ pc = "report"
    /\ Proceed(write_report(env.analysis.v), env, "finish")

pdos_main ==
    \/ pdos_main_begin
    \/ pdos_main_load
    \/ pdos_main_check
    \/ pdos_main_plot
    \/ pdos_main_save
    \/ pdos_main_analyze
    \/ pdos_main_print_results
    \/ pdos_main_report

---------------------------------------------------------------------------
(* qe_pdos_simple.py: the statements of the module, run top to bottom *)

\* no try block: whatever np.loadtxt or the indexing raises reaches the caller
simple_data_loader(fname, f) == LoadColumns(f, FALSE)

\* plt.plot and plt.fill_between of each atom's PDOS over energy_shifted
simple_plot_lines(energy, pdos) ==
    IF \E a \in AtomSet : Len(pdos[a].v) # Len(energy)
    THEN Ret("ValueError", 0, <<>>)
    ELSE Ret("none", 0, <<>>)

simple_begin ==
    /\ script = "pdos_simple" /\ pc = "begin"
    /\ Say("Loading PDOS data for different atomic species...", "load")

\* one of the four data_loader statements; only the first keeps the energy
simple_load ==
    /\ script = "pdos_simple" /\ pc = "load"
    /\ LET atom == Atoms[env.i]
           r == simple_data_loader(atom_files[atom], fs[atom_files[atom]])
       IN  Proceed(r,
                   [env EXCEPT !.energy = IF env.i = 1 THEN r.val[1] ELSE @,
                               !.pdos_data[atom] = r.val[2],
                               !.i = @ + 1],
                   IF env.i = Len(Atoms) THEN "plot" ELSE "load")

simple_plot ==
    /\ script = "pdos_simple" /\ pc = "plot"
    /\ LET r == simple_plot_lines(env.energy.v, env.pdos_data) IN
       Proceed([r EXCEPT !.log = << <<"print", "Creating PDOS plot...", "">> >>],
               env, "save")

simple_save ==
    /\ script = "pdos_simple" /\ pc = "save"
    /\ Proceed(Ret("none", 0, << <<"print", "Saving plot...", "">>,
                                 <<"savefig", "V_doped_WSSe_PDOS.png", "">>,
                                 <<"print", "Plot saved as", "V_doped_WSSe_PDOS.png">> >>),
               env, "summary")

simple_summary ==
    /\ script = "pdos_simple" /\ pc = "summary"
    /\ Say("=== PDOS Analysis Summary ===", "end")

pdos_simple ==
    \/ simple_begin
    \/ simple_load
    \/ simple_plot
    \/ simple_save
    \/ simple_summary

---------------------------------------------------------------------------
(* The working directories the scripts are run in *)

FileNames ==
    {"bands.dat", "soc_bands.dat", "phonon_dos.dat", "phonon_frequencies.dat"}
    \cup {atom_files[a] : a \in AtomSet}

\* a table without its last number: its last line has one column less
Ragged(t) == [t EXCEPT ![Len(t)] = SubSeq(@, 1, Len(@) - 1)]

\* a band table of r k-points and nb bands: the k-point, then the energies
BandTable(r, nb, fill) ==
    [i \in 1..r |->
        <<i - 1>> \o
        [b \in 1..nb |->
            IF b <= SplitIndex
            THEN -(SplitIndex - b + 1) - ((i + fill) % 2)
            ELSE (b - SplitIndex) + ((i + fill) % 2) + fill]]

BandCounts == {0, 1, 2} \cup ((SplitIndex - 1)..MaxBands)

BandFiles ==
    {Absent, Garbled(BandTable(2, 2, 0)), TextFile(Ragged(BandTable(2, 2, 0)))}
    \cup {TextFile(BandTable(r, nb, fill)) :
            r \in 0..MaxRows, nb \in BandCounts, fill \in 0..1}

\* a table of r lines and c columns: x, then y (zero, constant or rising),
\* then columns of zeros
CurveTable(r, c, fill) ==
    [i \in 1..r |->
        [j \in 1..c |->
            IF j = 1 THEN i - 1
            ELSE IF j = 2 THEN (CASE fill = 0 -> 0 [] fill = 1 -> 2 [] OTHER -> i)
            ELSE 0]]

CurveFiles ==
    {Absent, Garbled(CurveTable(2, 2, 1)), TextFile(Ragged(CurveTable(2, 2, 1)))}
    \cup {TextFile(CurveTable(r, c, fill)) : r \in 0..MaxRows, c \in 1..3, fill \in 0..2}

\* a PDOS table of r energies ending at 0 (fill = 0) or at 1 (fill = 1)
AtomTable(r, fill) == [i \in 1..r |-> <<i - r + fill, i + fill>>]

AtomFilesOnDisk ==
    {Absent, Garbled(AtomTable(2, 0)), TextFile(Ragged(AtomTable(2, 0))),
     TextFile(AtomTable(1, 0))}
    \cup {TextFile(AtomTable(r, fill)) : r \in 2..MaxRows, fill \in 0..1}

\* the directory holding the files of m and no other
Dir(m) == [n \in FileNames |-> IF n \in DOMAIN m THEN m[n] ELSE Absent]

\* the directories a script is run in: each file it reads in every form,
\* the files it does not read left out
Directories(s) ==
    CASE s = "band" -> {Dir([n \in {"bands.dat"} |-> f]) : f \in BandFiles}
      [] s = "phonon" ->
            {Dir([n \in {"phonon_dos.dat", "phonon_frequencies.dat"} |->
                    IF n = "phonon_dos.dat" THEN f ELSE g]) :
                f \in CurveFiles, g \in CurveFiles}
      [] s = "soc" ->
            {Dir([n \in {"soc_bands.dat", "bands.dat"} |->
                    IF n = "soc_bands.dat" THEN f ELSE g]) :
                f \in BandFiles, g \in BandFiles}
      [] OTHER ->
            {Dir([n \in {atom_files[a] : a \in AtomSet} |->
                    m[CHOOSE a \in AtomSet : atom_files[a] = n]]) :
                m \in [AtomSet -> AtomFilesOnDisk]}

Scripts == {"band", "phonon", "soc", "pdos", "pdos_simple"}

\* the locals of a script before its first statement
Locals(s) ==
    CASE s = "band" -> [k_points |-> None, energies |-> None, band_gap |-> None]
      [] s = "phonon" ->
            [frequency |-> None, dos |-> None, result |-> None,
             q_points |-> None, frequencies |-> None]
      [] s = "soc" ->
            [k_points |-> None, soc_energies |-> None, no_soc_energies |-> None,
             splitting |-> None]
      [] OTHER ->
            [i |-> 1, energy |-> None, pdos_data |-> [a \in AtomSet |-> None],
             analysis |-> None]

Init ==
    /\ script \in Scripts
    /\ fs \in Directories(script)
    /\ pc = "begin"
    /\ env = Locals(script)
    /\ out = <<>>
    /\ fault = "none"
    /\ parent = <<>>

Next ==
    \/ band_main
    \/ phonon_main
    \/ analyze_soc_effects
    \/ pdos_main
    \/ pdos_simple

Spec == Init /\ [][Next]_vars

---------------------------------------------------------------------------
(* What a run shows *)

Printed(text, arg) == <<"print", text, arg>> \in Range(out)

Saved(name) == <<"savefig", name, "">> \in Range(out)

Ended == pc \in {"end", "crashed"}

Malformed(f) == f.exists /\ (~f.numeric \/ IsRagged(f.rows))

\* the file parses to a 2-D array: at least two lines of at least two numbers
Loads(f) ==
    /\ f.exists /\ f.numeric /\ ~IsRagged(f.rows)
    /\ Len(f.rows) >= 2
    /\ Len(f.rows[1]) >= 2

\* the number of band columns of a band file that loads
Bands(f) == Len(f.rows[1]) - 1

\* the load of the i-th atom file is over and the analysis has not begun
AtomTried(i) == script = "pdos" /\ pc \in {"load", "check"} /\ env.i > i

---------------------------------------------------------------------------
(* C1: for every path that names an absent file, each guarded loader
   (read_band_structure, read_phonon_dos, read_phonon_modes, read_soc_energies
   and data_loader of qe_pdos_analysis.py) logs one message and returns
   (None, None) without raising; in the scripts, the run is past the load with
   both locals None, the message printed and no fault. *)
C1_AbsentFileGivesNone ==
    /\ \A n \in FileNames : ~fs[n].exists =>
        /\ read_band_structure(n, fs[n]) =
              Ret("none", <<None, None>>,
                  << <<"print", "Error reading band structure file", n>> >>)
        /\ read_phonon_dos(n, fs[n]) =
              Ret("none", <<None, None>>,
                  << <<"print", "Error reading phonon DOS file", n>> >>)
        /\ read_phonon_modes(n, fs[n]) =
              Ret("none", <<None, None>>,
                  << <<"print", "Error reading phonon modes file", n>> >>)
        /\ read_soc_energies(n, fs[n]) =
              Ret("none", <<None, None>>,
                  << <<"print", "Error reading SOC energies file", n>> >>)
        /\ pdos_data_loader(n, fs[n]) =
              Ret("none", <<None, None>>,
                  << <<"print", "Warning: File not found", n>> >>)
    /\ (script = "band" /\ pc \notin {"begin", "read"} /\ ~fs["bands.dat"].exists) =>
        /\ env.k_points = None /\ env.energies = None /\ fault = "none"
        /\ Printed("Error reading band structure file", "bands.dat")
    /\ (script = "phonon" /\ pc \notin {"begin", "read_dos"}
            /\ ~fs["phonon_dos.dat"].exists) =>
        /\ env.frequency = None /\ env.dos = None /\ fault = "none"
        /\ Printed("Error reading phonon DOS file", "phonon_dos.dat")
    /\ (script = "phonon" /\ pc \in {"finish", "end"}
            /\ ~fs["phonon_frequencies.dat"].exists) =>
        /\ env.q_points = None /\ env.frequencies = None /\ fault = "none"
        /\ Printed("Error reading phonon modes file", "phonon_frequencies.dat")
    /\ (script = "soc" /\ pc \notin {"begin", "read_soc"}
            /\ ~fs["soc_bands.dat"].exists) =>
        /\ env.k_points = None /\ env.soc_energies = None /\ fault = "none"
        /\ Printed("Error reading SOC energies file", "soc_bands.dat")
    /\ (script = "soc" /\ pc \notin {"begin", "read_soc", "read_no_soc"}
            /\ Loads(fs["soc_bands.dat"]) /\ ~fs["bands.dat"].exists) =>
        /\ env.no_soc_energies = None /\ fault = "none"
        /\ Printed("Error reading SOC energies file", "bands.dat")
    /\ \A i \in 1..Len(Atoms) :
        (AtomTried(i) /\ ~fs[atom_files[Atoms[i]]].exists) =>
            /\ env.pdos_data[Atoms[i]] = None /\ fault = "none"
            /\ Printed("Warning: File not found", atom_files[Atoms[i]])

\* C1 witness: the phonon script went past the load of an absent
\* phonon_dos.dat with nothing loaded and the message printed
C1_Witness ==
    /\ script = "phonon" /\ pc = "read_modes"
    /\ ~fs["phonon_dos.dat"].exists
    /\ env.frequency = None /\ env.dos = None
    /\ Printed("Error reading phonon DOS file", "phonon_dos.dat")

(* C2: data_loader of qe_pdos_simple.py, called on a path that does not
   exist, returns the "no data" pair and does not raise, so that a missing
   atom file does not end the script. *)
C2_SimpleLoaderDoesNotRaise ==
    (script = "pdos_simple" /\ \E a \in AtomSet : ~fs[atom_files[a]].exists) =>
        /\ pc # "crashed"
        /\ fault # "FileNotFoundError"

(* C3 as stated: in the band, phonon and SOC scripts a run that has ended has
   printed its "completed" message, whatever files are present or missing. *)
C3_AlwaysCompletes ==
    /\ (script = "band" /\ Ended) => Printed("Band structure analysis completed!", "")
    /\ (script = "phonon" /\ Ended) => Printed("Phonon analysis completed!", "")
    /\ (script = "soc" /\ Ended) => Printed("SOC analysis completed!", "")

\* the two band tables subtract: their shapes broadcast
Subtracts(f, g) ==
    /\ Broadcasts(Len(f.rows), Len(g.rows))
    /\ Broadcasts(Bands(f), Bands(g))

(* C3, amended: in a run that has ended, each plot / analysis step has run
   exactly when the file it depends on loaded (and, in the SOC script, both
   files did), a step whose file is missing has not run, the steps of the
   other files have run, and the "completed" message is printed unless an
   analysis step on loaded files raised: the band gap of a table of at most 20
   band columns, the difference of two band tables whose shapes do not
   broadcast.  A run that raised ends there, without the message. *)
C3_StepsFollowLoads ==
    /\ (script = "band" /\ Ended) =>
        LET f == fs["bands.dat"] IN
        /\ Saved("band_structure.png") <=> Loads(f)
        /\ Printed("Band structure analysis", "") <=> (Loads(f) /\ Bands(f) > SplitIndex)
        /\ ~f.exists => ~Saved("band_structure.png")
        /\ (fault # "none") <=> (Loads(f) /\ Bands(f) <= SplitIndex)
        /\ Printed("Band structure analysis completed!", "") <=> fault = "none"
    /\ (script = "phonon" /\ Ended) =>
        LET f == fs["phonon_dos.dat"]
            g == fs["phonon_frequencies.dat"]
        IN
        /\ Saved("phonon_dos.png") <=> Loads(f)
        /\ Printed("Phonon analysis", "") <=> Loads(f)
        /\ Saved("phonon_dispersion.png") <=> Loads(g)
        /\ ~f.exists => ~Saved("phonon_dos.png") /\ ~Printed("Phonon analysis", "")
        /\ ~g.exists => ~Saved("phonon_dispersion.png")
        /\ fault = "none"
        /\ Printed("Phonon analysis completed!", "")
    /\ (script = "soc" /\ Ended) =>
        LET f == fs["soc_bands.dat"]
            g == fs["bands.dat"]
            both == Loads(f) /\ Loads(g)
        IN
        /\ Printed("SOC analysis", "") <=> (both /\ Subtracts(f, g))
        /\ Saved("soc_comparison.png") <=> (both /\ Subtracts(f, g))
        /\ ~f.exists =>
              /\ ~Printed("SOC analysis", "") /\ ~Saved("soc_comparison.png")
              /\ ~Printed("Error reading SOC energies file", "bands.dat")
        /\ (fault # "none") <=> (both /\ ~Subtracts(f, g))
        /\ Printed("SOC analysis completed!", "") <=> fault = "none"

\* C3 witness: the phonon script ended with phonon_dos.dat missing, the DOS
\* steps skipped, the dispersion plotted and the final message printed
C3_Witness ==
    /\ script = "phonon" /\ pc = "end"
    /\ ~fs["phonon_dos.dat"].exists
    /\ Loads(fs["phonon_frequencies.dat"])
    /\ ~Saved("phonon_dos.png")
    /\ Saved("phonon_dispersion.png")
    /\ Printed("Phonon analysis completed!", "")

(* C4 as stated: when an input file exists but holds malformed numeric data
   (a line with another number of columns, or a token that is no number), the
   fault raised while parsing leaves the loader and ends the script: past the
   load, the run has crashed. *)
C4_MalformedTerminates ==
    /\ (script = "band" /\ pc \notin {"begin", "read"} /\ Malformed(fs["bands.dat"])) =>
          pc = "crashed"
    /\ (script = "soc" /\ pc \notin {"begin", "read_soc"}
            /\ Malformed(fs["soc_bands.dat"])) =>
          pc = "crashed"
    /\ \A i \in 1..Len(Atoms) :
        (script = "pdos" /\ pc # "begin" /\ env.i > i
            /\ Malformed(fs[atom_files[Atoms[i]]])) =>
          pc = "crashed"

(* C4, amended: when an input file exists but holds malformed numeric data,
   the guarded loaders (read_band_structure, read_phonon_dos,
   read_phonon_modes, read_soc_energies, data_loader of qe_pdos_analysis.py)
   catch the fault raised while parsing, log a message and return
   (None, None): the band, phonon and SOC scripts skip the steps of that file
   and print their "completed" message, and the enhanced PDOS script goes on
   with the atom left out.  Only data_loader of qe_pdos_simple.py, which has
   no handler, lets the ValueError out, and that ends the script at the load. *)
C4_MalformedIsCaught ==
    /\ \A n \in FileNames : Malformed(fs[n]) =>
        /\ read_band_structure(n, fs[n]) =
              Ret("none", <<None, None>>,
                  << <<"print", "Error reading band structure file", n>> >>)
        /\ read_phonon_dos(n, fs[n]).val = <<None, None>>
        /\ read_phonon_modes(n, fs[n]).val = <<None, None>>
        /\ read_soc_energies(n, fs[n]) =
              Ret("none", <<None, None>>,
                  << <<"print", "Error reading SOC energies file", n>> >>)
        /\ pdos_data_loader(n, fs[n]) =
              Ret("none", <<None, None>>, << <<"print", "Error loading", n>> >>)
        /\ simple_data_loader(n, fs[n]).exc = "ValueError"
    /\ (script = "band" /\ Ended /\ Malformed(fs["bands.dat"])) =>
        /\ fault = "none" /\ ~Saved("band_structure.png")
        /\ Printed("Error reading band structure file", "bands.dat")
        /\ Printed("Band structure analysis completed!", "")
    /\ (script = "phonon" /\ Ended /\ Malformed(fs["phonon_dos.dat"])) =>
        /\ fault = "none" /\ ~Saved("phonon_dos.png")
        /\ Printed("Phonon analysis completed!", "")
    /\ (script = "soc" /\ Ended /\ Malformed(fs["soc_bands.dat"])) =>
        /\ fault = "none" /\ ~Saved("soc_comparison.png")
        /\ Printed("Error reading SOC energies file", "soc_bands.dat")
        /\ Printed("SOC analysis completed!", "")
    /\ \A i \in 1..Len(Atoms) :
        (AtomTried(i) /\ Malformed(fs[atom_files[Atoms[i]]])) =>
            /\ env.pdos_data[Atoms[i]] = None /\ fault = "none"
            /\ Printed("Error loading", atom_files[Atoms[i]])
    /\ (script = "pdos_simple" /\ pc \in {"plot", "save", "summary", "end"}) =>
          \A a \in AtomSet : ~Malformed(fs[atom_files[a]])
    /\ (script = "pdos_simple" /\ fault = "ValueError" /\ env.i <= Len(Atoms)) =>
          ~Loads(fs[atom_files[Atoms[env.i]]])

\* C4 witness: the band script ended with its "completed" message on a
\* bands.dat that holds a token that is no number
C4_Witness ==
    /\ script = "band" /\ pc = "end"
    /\ fs["bands.dat"].exists /\ ~fs["bands.dat"].numeric
    /\ Printed("Error reading band structure file", "bands.dat")
    /\ Printed("Band structure analysis completed!", "")

(* C6: when the band table has 20 or fewer band columns,
   analyze_band_gap_from_bands returns no gap: it raises ValueError on the
   reduction of the empty block of columns from index 20 on.  In the band
   script the run ends there, after band_structure.png was written and
   without the "Band structure analysis completed!" message. *)
C6_FewBandsRaise ==
    /\ (script = "band" /\ ~env.energies.isNone
            /\ NCols(env.energies.v) <= SplitIndex) =>
          analyze_band_gap_from_bands(env.energies.v).exc = "ValueError"
    /\ (script = "band" /\ pc \notin {"begin", "read", "plot", "gap"}
            /\ Loads(fs["bands.dat"]) /\ Bands(fs["bands.dat"]) <= SplitIndex) =>
        /\ pc = "crashed" /\ fault = "ValueError"
        /\ env.band_gap = None
        /\ Saved("band_structure.png")
        /\ ~Printed("Band structure analysis", "")
        /\ ~Printed("Band structure analysis completed!", "")
    /\ (script = "band" /\ pc = "gap") =>
          Saved("band_structure.png")

\* C6 witness: the band script crashed on a table of exactly 20 band columns
C6_Witness ==
    /\ script = "band" /\ pc = "crashed" /\ fault = "ValueError"
    /\ NCols(env.energies.v) = SplitIndex
    /\ Saved("band_structure.png")

---------------------------------------------------------------------------
(* The analysis functions on their own: Init draws the arguments, the action
   makes the call *)

MaxGapRows == 2
MaxLen == 4
MaxPdosLen == 3

NoFiles == [n \in FileNames |-> Absent]

\* the call returned r: keep what it returned, or the exception it raised
Return(r) == Proceed(r, [env EXCEPT !.ret = Arr(r.val)], "return")

\* band tables, in tenths of an eV: the valence block at lo and the
\* conduction block at hi, but for the entry at <<i, b>>, which is v
GapTable(r, nb, lo, hi, i, b, v) ==
    [k \in 1..r |->
        [c \in 1..nb |->
            IF k = i /\ c = b THEN v ELSE IF c <= SplitIndex THEN lo ELSE hi]]

GapTables ==
    {GapTable(r, nb, lo, hi, i, b, v) :
        r \in 1..MaxGapRows, nb \in {1} \cup ((SplitIndex - 1)..MaxBands),
        lo \in {-10, -5}, hi \in {2, 3},
        i \in 1..MaxGapRows, b \in 1..MaxBands, v \in {-12, -5, 0, 2, 4}}

InitGap ==
    /\ script = "analyze_band_gap_from_bands"
    /\ fs = NoFiles
    /\ pc = "call"
    /\ \E t \in GapTables : env = [energies |-> Arr(t), ret |-> None]
    /\ out = <<>>
    /\ fault = "none"
    /\ parent = <<>>

call_analyze_band_gap_from_bands ==
    /\ script = "analyze_band_gap_from_bands" /\ pc = "call"
    /\ Return(analyze_band_gap_from_bands(env.energies.v))

SpecGap == InitGap /\ [][call_analyze_band_gap_from_bands]_vars

\* the entries of the columns below the split index, and of those from it on
Below(e) == {e[i][b] : i \in 1..Len(e), b \in 1..(IF NCols(e) < SplitIndex THEN NCols(e) ELSE SplitIndex)}

Above(e) == {e[i][b] : i \in 1..Len(e), b \in (SplitIndex + 1)..NCols(e)}

(* C5: for every band table with at least one column on each side of split
   index 20, analyze_band_gap_from_bands returns the minimum over the entries
   of the columns of index >= 20 minus the maximum over the entries of the
   columns of index < 20; with a valence block whose maximum is -0.5 and a
   conduction block whose minimum is 0.2 it returns 0.7. *)
C5_GapIsMinAboveMinusMaxBelow ==
    (script = "analyze_band_gap_from_bands" /\ pc # "call"
        /\ NCols(env.energies.v) > SplitIndex) =>
        LET e == env.energies.v IN
        /\ pc = "return"
        /\ \E lo \in Below(e), hi \in Above(e) :
            /\ \A x \in Below(e) : x <= lo
            /\ \A x \in Above(e) : x >= hi
            /\ env.ret.v = hi - lo
            /\ (lo = -5 /\ hi = 2) => env.ret.v = 7

\* C5 witness: a returned gap of 0.7 from a valence maximum of -0.5 that is a
\* single entry of the block and a conduction minimum of 0.2
C5_Witness ==
    /\ script = "analyze_band_gap_from_bands" /\ pc = "return"
    /\ env.ret.v = 7
    /\ Len(env.energies.v) = 2
    /\ -10 \in Below(env.energies.v) /\ -5 \in Below(env.energies.v)
    /\ \A x \in Above(env.energies.v) : x = 2

---------------------------------------------------------------------------
(* analyze_phonon_properties on curves *)

SeqsOf(S, n) == [1..n -> S]

CurveX == -1..2

CurveY == 0..2

InitCurve ==
    /\ script = "analyze_phonon_properties"
    /\ fs = NoFiles
    /\ pc = "call"
    /\ \E n \in 1..MaxLen : \E x \in SeqsOf(CurveX, n), y \in SeqsOf(CurveY, n) :
          env = [frequency |-> Arr(x), dos |-> Arr(y), ret |-> None]
    /\ out = <<>>
    /\ fault = "none"
    /\ parent = <<>>

call_analyze_phonon_properties ==
    /\ script = "analyze_phonon_properties" /\ pc = "call"
    /\ Return(analyze_phonon_properties(env.frequency.v, env.dos.v))

SpecCurve == InitCurve /\ [][call_analyze_phonon_properties]_vars

\* twice the composite trapezoidal sum of the first n points:
\* the sum over i < n of (x[i+1] - x[i]) * (y[i] + y[i+1])
RECURSIVE Trapezoids2(_, _, _)
Trapezoids2(x, y, n) ==
    IF n <= 1 THEN 0
    ELSE Trapezoids2(x, y, n - 1) + (x[n] - x[n - 1]) * (y[n - 1] + y[n])

Called == script = "analyze_phonon_properties" /\ pc # "call"

(* C7: for every curve (x, y) of at least two points, total_states as
   computed by analyze_phonon_properties is the composite trapezoidal sum over
   consecutive points of (x[i+1] - x[i]) * (y[i] + y[i+1]) / 2, whatever the
   spacing; for constant y = c on a unit-spaced grid spanning length L it is
   c * L exactly.  (total2 is twice total_states.) *)
C7_TotalIsTrapezoidalSum ==
    (Called /\ Len(env.frequency.v) >= 2) =>
        LET x == env.frequency.v
            y == env.dos.v
            n == Len(x)
        IN
        /\ pc = "return"
        /\ env.ret.v.total2 = Trapezoids2(x, y, n)
        /\ ((\A i \in 1..n : y[i] = y[1]) /\ (\A i \in 1..(n - 1) : x[i + 1] = x[i] + 1)) =>
              env.ret.v.total2 = 2 * y[1] * (x[n] - x[1])

\* C7 witness: the integral of a curve of uneven spacing, returned as
\* ((1 * 3) + (2 * 2)) / 2 = 3.5
C7_Witness ==
    /\ Called /\ pc = "return"
    /\ env.frequency.v = <<-1, 0, 2>>
    /\ env.dos.v = <<1, 2, 0>>
    /\ env.ret.v.total2 = 7

(* C8: when the trapezoidal integral of the curve is zero (an all-zero DOS,
   a single point), analyze_phonon_properties does not divide for the average
   frequency: it fails with a "degenerate curve" condition instead of
   returning the quotient by zero as the average. *)
C8_ZeroIntegralIsRefused ==
    (Called /\ Trapezoids2(env.frequency.v, env.dos.v, Len(env.dos.v)) = 0) =>
        /\ pc = "crashed"
        /\ env.ret = None

\* the curve reads the same from both ends, about x = 0
Symmetric(x, y) ==
    \A i \in 1..Len(x) :
        /\ x[i] = -x[Len(x) + 1 - i]
        /\ y[i] = y[Len(x) + 1 - i]

(* C9: for every curve whose x grid is symmetric about 0 and whose y values
   satisfy y(x) = y(-x), with a non-zero total integral, the weighted mean
   position returned by analyze_phonon_properties (the trapezoidal integral of
   x * y over that of y) is 0. *)
C9_SymmetricCurveHasMeanZero ==
    (Called /\ Symmetric(env.frequency.v, env.dos.v)
        /\ Trapezoids2(env.frequency.v, env.dos.v, Len(env.dos.v)) # 0) =>
        /\ pc = "return"
        /\ env.ret.v.avg_freq.kind = "num"
        /\ env.ret.v.avg_freq.num = 0
        /\ env.ret.v.avg_freq.den = env.ret.v.total2

\* C9 witness: a symmetric curve of four points, uneven in spacing and in y,
\* with a mean of 0 over an integral that is not 0
C9_Witness ==
    /\ Called /\ pc = "return"
    /\ env.frequency.v = <<-1, 0, 0, 1>>
    /\ env.dos.v = <<2, 1, 1, 2>>
    /\ env.ret.v.avg_freq.num = 0
    /\ env.ret.v.total2 # 0

---------------------------------------------------------------------------
(* analyze_pdos_contributions on curves *)

PdosX == -1..1

PdosY == 0..2

\* the curve of the peak locator's test: x = [-2,-1,0,1,2], y = [1,5,2,8,3]
PeakTestX == <<-2, -1, 0, 1, 2>>

PeakTestY == <<1, 5, 2, 8, 3>>

\* the energy axis, and one PDOS curve held by the atoms that loaded
PdosInputs ==
    {<<x, y>> : x \in SeqsOf(PdosX, 1), y \in SeqsOf(PdosY, 1)}
    \cup UNION {{<<x, y>> : x \in SeqsOf(PdosX, n), y \in SeqsOf(PdosY, n)} :
                    n \in 2..MaxPdosLen}
    \cup {<<PeakTestX, PeakTestY>>}

InitPdos ==
    /\ script = "analyze_pdos_contributions"
    /\ fs = NoFiles
    /\ pc = "call"
    /\ \E c \in PdosInputs, loaded \in SUBSET AtomSet :
          env = [energy |-> Arr(c[1]),
                 pdos_data |-> [a \in AtomSet |-> IF a \in loaded THEN Arr(c[2]) ELSE None],
                 ret |-> None]
    /\ out = <<>>
    /\ fault = "none"
    /\ parent = <<>>

call_analyze_pdos_contributions ==
    /\ script = "analyze_pdos_contributions" /\ pc = "call"
    /\ Return(analyze_pdos_contributions(env.energy.v, env.pdos_data))

SpecPdos == InitPdos /\ [][call_analyze_pdos_contributions]_vars

\* i (counted from 1) is the lowest position of lo..hi at which s is greatest
FirstMaxIn(s, i, lo, hi) ==
    /\ i \in lo..hi
    /\ \A j \in lo..hi : s[j] <= s[i]
    /\ \A j \in lo..(i - 1) : s[j] < s[i]

\* f (counted from 0) is the lowest index at which |x| is least
IsFermiIndex(x, f) ==
    /\ f \in 0..(Len(x) - 1)
    /\ \A j \in 1..Len(x) : Abs(x[j]) >= Abs(x[f + 1])
    /\ \A j \in 1..f : Abs(x[j]) > Abs(x[f + 1])

PdosCalled == script = "analyze_pdos_contributions" /\ pc # "call"

LoadedAtoms == {a \in AtomSet : ~env.pdos_data[a].isNone}

(* C10: for every curve and every loaded atom, analyze_pdos_contributions
   takes as Fermi index the lowest index whose |x| is least, reports as
   valence peak the x at the lowest index of greatest y among the indices
   below the Fermi index, and as conduction peak the x at the lowest index of
   greatest y among the indices from the Fermi index on; on
   x = [-2,-1,0,1,2], y = [1,5,2,8,3] the peaks are -1 and 1.  With the Fermi
   index at 0 there is no index below it and no valence peak is returned: the
   call raises. *)
C10_PeaksAreFirstMaxima ==
    PdosCalled =>
        LET x == env.energy.v
            f == CHOOSE f \in 0..(Len(x) - 1) : IsFermiIndex(x, f)
        IN
        /\ \E g \in 0..(Len(x) - 1) : IsFermiIndex(x, g)
        /\ (pc = "crashed") <=> (f = 0 /\ LoadedAtoms # {})
        /\ pc = "crashed" => (fault = "ValueError" /\ env.ret = None)
        /\ pc = "return" =>
            /\ DOMAIN env.ret.v = LoadedAtoms
            /\ \A a \in LoadedAtoms :
                LET y == env.pdos_data[a].v
                    r == env.ret.v[a]
                IN
                /\ \E i \in 1..f :
                    FirstMaxIn(y, i, 1, f) /\ r.valence_peak_energy = x[i]
                /\ \E i \in (f + 1)..Len(x) :
                    FirstMaxIn(y, i, f + 1, Len(x)) /\ r.conduction_peak_energy = x[i]
                /\ (x = PeakTestX /\ y = PeakTestY) =>
                    (r.valence_peak_energy = -1 /\ r.conduction_peak_energy = 1)

\* C10 witness: the test curve analysed for two loaded atoms, with peaks at
\* -1 and 1
C10_Witness ==
    /\ PdosCalled /\ pc = "return"
    /\ env.energy.v = PeakTestX
    /\ LoadedAtoms = {"W", "V"}
    /\ env.pdos_data["V"].v = PeakTestY
    /\ env.ret.v["V"].valence_peak_energy = -1
    /\ env.ret.v["V"].conduction_peak_energy = 1

---------------------------------------------------------------------------
(* compare_with_without_soc on pairs of band tables *)

MaxSocDim == 3

\* a table of r k-points and c bands, all entries at base but the one at
\* <<i, j>>, which is v
SocTable(r, c, base, i, j, v) ==
    [k \in 1..r |-> [b \in 1..c |-> IF k = i /\ b = j THEN v ELSE base]]

SocTables ==
    {SocTable(r, c, base, i, j, v) :
        r \in 1..MaxSocDim, c \in 1..MaxSocDim, base \in {0, 2},
        i \in 1..MaxSocDim, j \in 1..MaxSocDim, v \in {-1, 0, 2}}

InitSoc ==
    /\ script = "compare_with_without_soc"
    /\ fs = NoFiles
    /\ pc = "call"
    /\ \E a \in SocTables, b \in SocTables :
          env = [soc_energies |-> Arr(a), no_soc_energies |-> Arr(b), ret |-> None]
    /\ out = <<>>
    /\ fault = "none"
    /\ parent = <<>>

\* the call returned r: the tuple it returned, or the exception it raised
call_compare_with_without_soc ==
    /\ script = "compare_with_without_soc" /\ pc = "call"
    /\ LET r == compare_with_without_soc(env.soc_energies, env.no_soc_energies) IN
       Proceed(r, [env EXCEPT !.ret = r.val], "return")

SpecSoc == InitSoc /\ [][call_compare_with_without_soc]_vars

SocCalled == script = "compare_with_without_soc" /\ pc # "call"

SameShape(a, b) == NRows(a) = NRows(b) /\ NCols(a) = NCols(b)

\* the sum of |a - b| over the first n entries (row by row) of two tables of
\* one shape
RECURSIVE AbsDiffSum(_, _, _)
AbsDiffSum(a, b, n) ==
    IF n = 0 THEN 0
    ELSE LET i == ((n - 1) \div NCols(a)) + 1
             j == ((n - 1) % NCols(a)) + 1
         IN  AbsDiffSum(a, b, n - 1) + Abs(a[i][j] - b[i][j])

(* C11: for every non-empty band table A, compare_with_without_soc(A, A)
   returns average splitting 0 and maximum splitting 0; for two tables of one
   shape it returns the mean of |a - b| and the maximum of |a - b| over all
   elements, and whenever it returns, maximum >= mean >= 0. *)
C11_SplittingIsMeanAndMaxOfAbs ==
    SocCalled =>
        LET a == env.soc_energies.v
            b == env.no_soc_energies.v
        IN
        /\ SameShape(a, b) => pc = "return"
        /\ pc = "return" =>
            LET avg == env.ret.v.avg_splitting
                mx == env.ret.v.max_splitting
            IN
            /\ avg.kind = "num" /\ avg.den > 0
            /\ avg.num >= 0
            /\ mx * avg.den >= avg.num
            /\ SameShape(a, b) =>
                /\ avg.num = AbsDiffSum(a, b, NRows(a) * NCols(a))
                /\ avg.den = NRows(a) * NCols(a)
                /\ \E i \in 1..NRows(a), j \in 1..NCols(a) : mx = Abs(a[i][j] - b[i][j])
                /\ \A i \in 1..NRows(a), j \in 1..NCols(a) : mx >= Abs(a[i][j] - b[i][j])
            /\ a = b => (avg.num = 0 /\ mx = 0)

\* C11 witness: a table that is not constant compared with itself, both
\* splittings 0
C11_Witness ==
    /\ SocCalled /\ pc = "return"
    /\ env.soc_energies.v = <<<<2, -1>>, <<2, 2>>>>
    /\ env.no_soc_energies.v = env.soc_energies.v
    /\ env.ret.v.avg_splitting.num = 0
    /\ env.ret.v.max_splitting = 0

(* C12: for every pair of band tables whose shapes differ (in the number of
   k-point rows or of band columns, one table of a single row or of a single
   column included), compare_with_without_soc raises and returns no splitting
   values: a shape mismatch never prints an average / maximum splitting. *)
C12_ShapeMismatchRaises ==
    (SocCalled /\ ~SameShape(env.soc_energies.v, env.no_soc_energies.v)) =>
        /\ pc = "crashed"
        /\ env.ret = None
        /\ ~Printed("SOC analysis", "")

---------------------------------------------------------------------------
(* The shared energy axis of qe_pdos_analysis.py *)

\* the loop over atom_files is over
AtomsLoaded == script = "pdos" /\ pc \notin {"begin", "load"}

\* the i-th atom file is the first of W, Se, S, V that loads
FirstLoaded(i) ==
    /\ Loads(fs[atom_files[Atoms[i]]])
    /\ \A j \in 1..(i - 1) : ~Loads(fs[atom_files[Atoms[j]]])

(* C13: in qe_pdos_analysis.py, once the atom files W, Se, S, V have been
   tried in that order, the shared energy axis is the energy column of the
   first file that loaded: a later successful load does not replace it. *)
C13_FirstLoadedAxisIsKept ==
    AtomsLoaded =>
        \A i \in 1..Len(Atoms) :
            FirstLoaded(i) =>
                env.energy = Arr(Column(fs[atom_files[Atoms[i]]].rows, 0))

---------------------------------------------------------------------------
(* The order of the steps of qe_pdos_analysis.py *)

\* event a was put out, and event b after it
Before(a, b) == \E i \in 1..Len(out), j \in 1..Len(out) : i < j /\ out[i] = a /\ out[j] = b

\* every atom file that loads holds the same energy column, whose point
\* nearest 0 is not its first
OneAxisAcrossFermi ==
    /\ \A a \in AtomSet : Loads(fs[atom_files[a]]) =>
          Arr(Column(fs[atom_files[a]].rows, 0)) = env.energy
    /\ ~env.energy.isNone
    /\ argmin([i \in 1..Len(env.energy.v) |-> Abs(env.energy.v[i])]).val >= 1

(* C14: in qe_pdos_analysis.py, whenever at least one atom file loads (the
   curve having points on both sides of the Fermi index), the run saves
   V_doped_WSSe_PDOS.png, computes the analysis, prints the results, writes
   pdos_analysis_report.txt with its header, date line and one block per
   loaded atom, and last prints "PDOS analysis completed successfully!", in
   that order; when no atom file loads it returns after "Error: No valid PDOS
   data found!" with neither the plot nor the report written. *)
C14_PdosRunCompletesInOrder ==
    (script = "pdos" /\ Ended) =>
        /\ (\A a \in AtomSet : ~Loads(fs[atom_files[a]])) =>
            /\ pc = "end"
            /\ out[Len(out)] = <<"print", "Error: No valid PDOS data found!", "">>
            /\ ~Saved("V_doped_WSSe_PDOS.png")
            /\ <<"open", "pdos_analysis_report.txt", "w">> \notin Range(out)
        /\ ((\E a \in AtomSet : Loads(fs[atom_files[a]])) /\ OneAxisAcrossFermi) =>
            /\ pc = "end"
            /\ Before(<<"savefig", "V_doped_WSSe_PDOS.png", "">>,
                      <<"print", "Analyzing PDOS contributions...", "">>)
            /\ Before(<<"print", "Analyzing PDOS contributions...", "">>,
                      <<"print", "=== PDOS Analysis Results ===", "">>)
            /\ Before(<<"print", "=== PDOS Analysis Results ===", "">>,
                      <<"open", "pdos_analysis_report.txt", "w">>)
            /\ Before(<<"write", "PDOS Analysis Report", "">>,
                      <<"write", "Analysis date", "">>)
            /\ \A a \in AtomSet : Loads(fs[atom_files[a]]) =>
                  Before(<<"write", "Analysis date", "">>,
                         <<"write", "Atom Analysis", a>>)
            /\ out[Len(out)] = <<"print", "PDOS analysis completed successfully!", "">>

---------------------------------------------------------------------------
(* The contributions reported by analyze_pdos_contributions *)

\* twice the area of the trapezoid between the points i and i + 1 (counted
\* from 1) of the curve
Trapezoid2(x, y, i) == (x[i + 1] - x[i]) * (y[i] + y[i + 1])

(* C16: for every curve with Fermi index f >= 1 and every loaded atom, the
   valence contribution is the trapezoidal integral over the indices [0, f),
   the conduction contribution the one over [f, n), and the total
   contribution reported, their sum, is the trapezoidal integral over the
   whole curve less the one trapezoid between the indices f - 1 and f; it is
   the whole-curve integral exactly when that trapezoid has zero area. *)
C16_TotalOmitsFermiTrapezoid ==
    PdosCalled =>
        LET x == env.energy.v
            n == Len(x)
            f == CHOOSE f \in 0..(n - 1) : IsFermiIndex(x, f)
        IN
        (f >= 1) =>
            /\ pc = "return"
            /\ \A a \in LoadedAtoms :
                LET y == env.pdos_data[a].v
                    r == env.ret.v[a]
                    whole2 == Trapezoids2(x, y, n)
                IN
                /\ r.valence2 = Trapezoids2(x, y, f)
                /\ r.conduction2 = whole2 - Trapezoids2(x, y, f + 1)
                /\ r.total2 = r.valence2 + r.conduction2
                /\ r.total2 = whole2 - Trapezoid2(x, y, f)
                /\ (r.total2 = whole2) <=> (Trapezoid2(x, y, f) = 0)

\* C16 witness: on x = [-2,-1,0,1,2], y = [1,5,2,8,3] (doubled integral 34,
\* doubled trapezoid between -1 and 0 of 7) the total reported is 27 / 2
C16_Witness ==
    /\ PdosCalled /\ pc = "return"
    /\ env.energy.v = PeakTestX
    /\ env.pdos_data["W"] = Arr(PeakTestY)
    /\ Trapezoids2(PeakTestX, PeakTestY, 5) = 34
    /\ env.ret.v["W"].total2 = 27

---------------------------------------------------------------------------
(* qe_comprehensive_analysis.py *)

\* the scripts run in turn, and the main of this model that each file holds
analyses ==
    << [script |-> "qe_band_analysis.py", description |-> "Band Structure Analysis",
        runs |-> "band"],
       [script |-> "qe_phonon_analysis.py", description |-> "Phonon Analysis",
        runs |-> "phonon"],
       [script |-> "qe_soc_analysis.py", description |-> "Spin-Orbit Coupling Analysis",
        runs |-> "soc"] >>

ScriptFiles == {analyses[i].script : i \in 1..Len(analyses)}

create_summary_report ==
    Ret("none", 0,
        << <<"open", "comprehensive_report.txt", "w">>,
           <<"write", "Quantum ESPRESSO Comprehensive Analysis Report", "">>,
           <<"write", "Calculations Performed:", "">>,
           <<"write", "Generated Files:", "">>,
           <<"write", "Key Physical Properties:", "">>,
           <<"write", "Next Steps:", "">>,
           <<"print", "Summary report created", "comprehensive_report.txt">> >>)

\* a panel of the figure: the curve if np.loadtxt(..., unpack=True) gives
\* exactly two arrays (a table of two columns, or two numbers in one line or
\* one column), the "not available" text on any exception
panel(f) ==
    LET d == loadtxt(f) IN
    IF d.exc # "none" THEN "not available"
    ELSE IF d.ndim = 2 /\ Len(d.data[1]) = 2 THEN "plotted"
    ELSE IF d.ndim = 1 /\ d.data # <<>> /\ Len(d.data) * Len(d.data[1]) = 2 THEN "plotted"
    ELSE "not available"

create_combined_plots(dir) ==
    Ret("none", 0,
        << <<"print", "Creating combined plots...", "">>,
           <<"panel", "Band Structure", panel(dir["bands.dat"])>>,
           <<"panel", "Density of States", panel(dir["dos.dat"])>>,
           <<"panel", "Phonon DOS", panel(dir["phonon_dos.dat"])>>,
           <<"savefig", "comprehensive_results.png", "">>,
           <<"print", "Combined plots saved as", "comprehensive_results.png">> >>)

run_all_analyses_begin ==
    /\ script = "comprehensive" /\ pc = "begin"
    /\ Say("=== Comprehensive Quantum ESPRESSO Analysis ===", "loop")

\* a turn of the loop for a script that is not there
run_all_analyses_skip ==
    /\ script = "comprehensive" /\ pc = "loop"
    /\ env.i <= Len(analyses)
    /\ ~fs[analyses[env.i].script].exists
    /\ Proceed(Ret("none", 0,
                   << <<"print", "not found, skipping", analyses[env.i].script>> >>),
               [env EXCEPT !.i = @ + 1], "loop")

\* a turn of the loop for a script that is there: subprocess.run starts the
\* child and waits for it
run_all_analyses_launch ==
    /\ script = "comprehensive" /\ pc = "loop"
    /\ env.i <= Len(analyses)
    /\ fs[analyses[env.i].script].exists
    /\ out' = Append(out, <<"print", "Running", analyses[env.i].description>>)
    /\ parent' = <<[script |-> script, env |-> env]>> \o parent
    /\ script' = analyses[env.i].runs
    /\ pc' = "begin"
    /\ env' = Locals(analyses[env.i].runs)
    /\ fault' = "none"
    /\ UNCHANGED fs

\* the except clause left out: the failure of a child ends the parent
run_all_analyses_reap_unguarded ==
    /\ parent # <<>> /\ Ended
    /\ LET frame == Head(parent) IN
       /\ script' = frame.script
       /\ IF pc = "end"
          THEN /\ out' = Append(out, <<"print", "completed successfully",
                                       analyses[frame.env.i].description>>)
               /\ pc' = "loop"
               /\ env' = [frame.env EXCEPT !.i = @ + 1]
               /\ fault' = "none"
          ELSE /\ out' = out
               /\ pc' = "crashed"
               /\ env' = frame.env
               /\ fault' = "CalledProcessError"
    /\ parent' = Tail(parent)
    /\ UNCHANGED fs

\* the child has exited: subprocess.run returns, or raises CalledProcessError
\* for an exit status other than 0 (that of an uncaught exception), which the
\* except clause reports
run_all_analyses_reap ==
    /\ parent # <<>> /\ Ended
    /\ LET frame == Head(parent) IN
       /\ script' = frame.script
       /\ out' = Append(out, <<"print",
                               IF pc = "end" THEN "completed successfully" ELSE "failed",
                               analyses[frame.env.i].description>>)
       /\ env' = [frame.env EXCEPT !.i = @ + 1]
    /\ pc' = "loop"
    /\ fault' = "none"
    /\ parent' = Tail(parent)
    /\ UNCHANGED fs

\* after the loop: the summary report and the closing message
run_all_analyses_finish ==
    /\ script = "comprehensive" /\ pc = "loop"
    /\ env.i > Len(analyses)
    /\ Proceed([create_summary_report EXCEPT
                   !.log = @ \o << <<"print", "Comprehensive analysis completed!", "">> >>],
               env, "plots")

comprehensive_main_plots ==
    /\ script = "comprehensive" /\ pc = "plots"
    /\ Proceed(create_combined_plots(fs), env, "finish")

comprehensive_main_finish ==
    /\ script = "comprehensive" /\ pc = "finish"
    /\ Say("All analyses completed successfully!", "end")

comprehensive_main ==
    \/ run_all_analyses_begin
    \/ run_all_analyses_skip
    \/ run_all_analyses_launch
    \/ run_all_analyses_reap
    \/ run_all_analyses_finish
    \/ comprehensive_main_plots
    \/ comprehensive_main_finish

\* working directories of the comprehensive script: which of the three
\* scripts are there, and the data files they and the combined plot read
ComprehensiveDirectories ==
    {[n \in FileNames \cup ScriptFiles \cup {"dos.dat"} |->
        CASE n \in ScriptFiles -> IF n \in there THEN TextFile(<<>>) ELSE Absent
          [] n = "bands.dat" -> b
          [] n = "soc_bands.dat" -> s
          [] n = "phonon_dos.dat" -> d
          [] n = "phonon_frequencies.dat" -> m
          [] n = "dos.dat" -> e
          [] OTHER -> Absent] :
        there \in SUBSET ScriptFiles,
        b \in {Absent, TextFile(BandTable(2, SplitIndex + 1, 0)),
               TextFile(BandTable(2, 1, 0))},
        s \in {Absent, TextFile(BandTable(2, SplitIndex + 1, 1)),
               TextFile(BandTable(3, SplitIndex + 1, 1))},
        d \in {Absent, TextFile(CurveTable(2, 2, 1))},
        m \in {Absent, TextFile(CurveTable(2, 3, 1))},
        e \in {Absent, TextFile(CurveTable(2, 2, 1))}}

InitComprehensive ==
    /\ script = "comprehensive"
    /\ fs \in ComprehensiveDirectories
    /\ pc = "begin"
    /\ env = [i |-> 1]
    /\ out = <<>>
    /\ fault = "none"
    /\ parent = <<>>

NextComprehensive ==
    \/ comprehensive_main
    \/ band_main
    \/ phonon_main
    \/ analyze_soc_effects

SpecComprehensive == InitComprehensive /\ [][NextComprehensive]_vars

---------------------------------------------------------------------------
(* The order of the comprehensive run *)

Running(i) == <<"print", "Running", analyses[i].description>>

Succeeded(i) == <<"print", "completed successfully", analyses[i].description>>

Failed(i) == <<"print", "failed", analyses[i].description>>

Skipped(i) == <<"print", "not found, skipping", analyses[i].script>>

\* the first line a child prints
Banner(i) == <<"print", "=== " \o analyses[i].description \o " ===", "">>

ReportOpened == <<"open", "comprehensive_report.txt", "w">>

CombinedPlotSaved == <<"savefig", "comprehensive_results.png", "">>

AllCompleted == <<"print", "All analyses completed successfully!", "">>

\* how many times event e was put out
Times(e) == Cardinality({k \in 1..Len(out) : out[k] = e})

\* every event of A was put out before every event of B
AllBefore(A, B) ==
    \A k \in 1..Len(out), l \in 1..Len(out) : (out[k] \in A /\ out[l] \in B) => k < l

\* the events that open and that close the i-th turn of the loop
Opening(i) == {Running(i), Skipped(i)}

Closing(i) == {Succeeded(i), Failed(i), Skipped(i)}

\* the i-th script, run on the files of the directory, ends on an uncaught
\* exception: too few bands for the gap, or band tables that do not subtract
ChildFails(i) ==
    CASE i = 1 -> Loads(fs["bands.dat"]) /\ Bands(fs["bands.dat"]) <= SplitIndex
      [] i = 2 -> FALSE
      [] OTHER -> /\ Loads(fs["soc_bands.dat"]) /\ Loads(fs["bands.dat"])
                  /\ ~Subtracts(fs["soc_bands.dat"], fs["bands.dat"])

\* the i-th turn of the loop is over
TurnOver(i) == (IF parent = <<>> THEN env.i ELSE Head(parent).env.i) > i

\* the positions of a script, in the order in which a run passes them
Steps(s) ==
    CASE s = "comprehensive" -> <<"begin", "loop", "plots", "finish", "end">>
      [] s = "band" -> <<"begin", "read", "plot", "gap", "finish", "end">>
      [] s = "phonon" -> <<"begin", "read_dos", "plot_dos", "analyze", "read_modes",
                           "plot_dispersion", "finish", "end">>
      [] OTHER -> <<"begin", "read_soc", "read_no_soc", "compare", "plot", "finish", "end">>

\* how far the run has come: ten for each turn of the loop begun, and within
\* a turn the position of the child
Measure ==
    IF parent = <<>>
    THEN CASE pc = "begin" -> 0
           [] pc = "loop" -> 10 * env.i
           [] pc = "plots" -> 50
           [] pc = "finish" -> 51
           [] OTHER -> 52
    ELSE 10 * Head(parent).env.i
         + (IF pc = "crashed" THEN 9
            ELSE CHOOSE k \in 1..Len(Steps(script)) : Steps(script)[k] = pc)

C15_Order ==
    /\ Len(parent) <= 1
    /\ (script = "comprehensive") <=> (parent = <<>>)
    /\ script = "comprehensive" =>
        /\ pc \in Range(Steps(script))
        /\ env.i \in 1..(Len(analyses) + 1)
        /\ pc \in {"plots", "finish", "end"} => env.i = Len(analyses) + 1
    /\ script # "comprehensive" =>
        /\ script = analyses[Head(parent).env.i].runs
        /\ pc \in Range(Steps(script)) \cup {"crashed"}
    /\ \A i \in 1..Len(analyses) :
        /\ Times(Running(i)) + Times(Skipped(i)) <= 1
        /\ ~TurnOver(i) => \A e \in Closing(i) : Times(e) = 0
        /\ TurnOver(i) =>
            /\ Times(Running(i)) + Times(Skipped(i)) = 1
            /\ ~fs[analyses[i].script].exists =>
                /\ Times(Skipped(i)) = 1
                /\ Times(Banner(i)) = 0
                /\ Times(Succeeded(i)) = 0 /\ Times(Failed(i)) = 0
            /\ fs[analyses[i].script].exists =>
                /\ Times(Running(i)) = 1 /\ Times(Banner(i)) = 1
                /\ Times(Succeeded(i)) + Times(Failed(i)) = 1
                /\ Times(Failed(i)) = 1 <=> ChildFails(i)
                /\ AllBefore({Running(i)}, {Banner(i)})
                /\ AllBefore({Banner(i)}, {Succeeded(i), Failed(i)})
        /\ i < Len(analyses) => AllBefore(Closing(i) \cup {Banner(i)}, Opening(i + 1))
        /\ AllBefore(Closing(i), {ReportOpened})
    /\ Times(ReportOpened) = (IF script = "comprehensive" /\ pc \in {"plots", "finish", "end"}
                              THEN 1 ELSE 0)
    /\ Times(CombinedPlotSaved) = (IF script = "comprehensive" /\ pc \in {"finish", "end"}
                                   THEN 1 ELSE 0)
    /\ AllBefore({ReportOpened}, {CombinedPlotSaved})
    /\ Times(AllCompleted) = (IF script = "comprehensive" /\ pc = "end" THEN 1 ELSE 0)
    /\ (script = "comprehensive" /\ pc = "end") =>
        /\ out[Len(out)] = AllCompleted
        /\ \A i \in 1..Len(analyses) : TurnOver(i)

(* C15: the comprehensive script considers the band, phonon and SOC scripts
   once each, in that order, a child having exited before the next is looked
   at; a script that is absent is skipped and a script that exits with
   failure is reported as failed, and the turns after it still run;
   comprehensive_report.txt is written after the three turns whatever their
   outcomes, the combined plot follows, and the run ends with "All analyses
   completed successfully!" printed last, also when children failed or were
   skipped.  The parent never ends on an exception, every state short of its
   end is at a position from which the code goes on, and every step brings
   the run further. *)
C15_AllThreeThenReportThenPlot ==
    /\ []C15_Order
    /\ [][Measure' > Measure]_vars

\* C15 witness: the run ended with the band script failed, the phonon script
\* skipped, the SOC script failed, the report and the plot written and the
\* closing message last
C15_Witness ==
    /\ script = "comprehensive" /\ pc = "end"
    /\ Times(Failed(1)) = 1 /\ Times(Skipped(2)) = 1 /\ Times(Failed(3)) = 1
    /\ Times(ReportOpened) = 1 /\ Times(CombinedPlotSaved) = 1
    /\ out[Len(out)] = AllCompleted

=============================================================================
